---- MODULE Spec2Model ----
(***************************************************************************)
(* A model of the midi-processing repository: the event importer and       *)
(* exporter (midi_processor/midi_processor.py), the bar decomposer, the    *)
(* tempo integrator (tempo_integrator.py), the swing transforms (swing.py, *)
(* swing_r.py), clamp_sorted and the chord thinning filter (no_chords.py). *)
(*                                                                         *)
(* Each subsystem has its own specification over the shared variables:     *)
(*   SpecRoundTrip  decode -> import -> export -> import                   *)
(*   SpecBars       generate_bars -> to_regular_midi_representation        *)
(*   SpecTempo      augment_note_list / naive_tempo_change_to_seconds      *)
(*   SpecSwing      to_swing / from_swing                                  *)
(*   SpecClamp      clamp_sorted                                           *)
(*   SpecChords     no_chords                                              *)
(***************************************************************************)
EXTENDS Integers, Sequences, FiniteSets, TLC

(***************************************************************************)
(* Generic helpers.                                                        *)
(***************************************************************************)
Abs(x) == IF x < 0 THEN -x ELSE x

Max2(x, y) == IF x >= y THEN x ELSE y

Min2(x, y) == IF x <= y THEN x ELSE y

RECURSIVE Pow2(_)
Pow2(n) == IF n <= 0 THEN 1 ELSE 2 * Pow2(n - 1)

RECURSIVE BitLen(_)
BitLen(n) == IF n <= 0 THEN 0 ELSE 1 + BitLen(n \div 2)

RECURSIVE Gcd(_, _)
Gcd(a, b) == IF b = 0 THEN a ELSE Gcd(b, a % b)

RemoveAt(s, k) == [i \in 1..(Len(s) - 1) |-> IF i < k THEN s[i] ELSE s[i + 1]]

\* Python's sorted(..., key=lambda s: s.beat) is a stable sort: an element is
\* placed after every element whose beat is <= its own.
RECURSIVE InsertByBeat(_, _)
InsertByBeat(s, x) ==
    IF s = <<>> THEN <<x>>
    ELSE IF s[Len(s)].beat <= x.beat THEN Append(s, x)
    ELSE Append(InsertByBeat(SubSeq(s, 1, Len(s) - 1), x), s[Len(s)])

RECURSIVE SortByBeat(_)
SortByBeat(s) ==
    IF s = <<>> THEN <<>>
    ELSE InsertByBeat(SortByBeat(SubSeq(s, 1, Len(s) - 1)), s[Len(s)])

(***************************************************************************)
(* Floating point beats of the importer and exporter.                      *)
(*                                                                         *)
(* A beat is a Python float.  The model keeps the binary rounding of every *)
(* float operation (round to nearest, ties to even) with a significand of  *)
(* SigBits bits instead of 53, and stores a float as the integer number of *)
(* 2^-FracBits beats it denotes.  SigBits is odd like 53, which gives      *)
(* n/96 the same rounding direction as in double precision.                *)
(***************************************************************************)
SigBits == 9

FracBits == SigBits + 6

FUnit == Pow2(FracBits)

\* The float nearest to num/den (num >= 0, den > 0), in 2^-FracBits units
\* when num is given in those units.
RoundQ(num, den) ==
    LET e    == Max2(0, BitLen(num \div den) - SigBits)
        step == Pow2(e) * den
        m    == num \div step
        r    == num % step
        up   == (2 * r > step) \/ (2 * r = step /\ m % 2 = 1)
        m1   == IF up THEN m + 1 ELSE m
        \* a carry into the next binade may leave SigBits + 1 bits
        e2   == Max2(0, BitLen(m1) - SigBits)
    IN  (m1 \div Pow2(e2)) * Pow2(e2) * Pow2(e)

\* int / int -> float   (accumulated_time / ticks_per_beat)
FDivInt(a, b) == RoundQ(a * FUnit, b)

FAdd(x, y) == IF x + y >= 0 THEN RoundQ(x + y, 1) ELSE -RoundQ(-(x + y), 1)

FSub(x, y) == IF x - y >= 0 THEN RoundQ(x - y, 1) ELSE -RoundQ(y - x, 1)

\* float * int -> float
FMulInt(x, k) == IF x >= 0 THEN RoundQ(x * k, 1) ELSE -RoundQ(-(x * k), 1)

\* int(float): truncation toward zero
FInt(x) == IF x >= 0 THEN x \div FUnit ELSE -((-x) \div FUnit)

(***************************************************************************)
(* Python dicts as functions whose DOMAIN is the set of keys present.      *)
(***************************************************************************)
EmptyDict == [x \in {} |-> 0]

DictPop(d, k) == [x \in (DOMAIN d) \ {k} |-> d[x]]

DictPut(d, k, v) == [x \in (DOMAIN d) \cup {k} |-> IF x = k THEN v ELSE d[x]]

(***************************************************************************)
(* Program constants.                                                      *)
(***************************************************************************)
DEFAULT_TICKS_PER_BEAT == 96

DEFAULT_BPM == 120

(***************************************************************************)
(* Bounds of the import / export model.                                    *)
(***************************************************************************)
MaxMsgs == 3

MaxTracks == 2

TicksPerBeatChoices == {96, 192}

DeltaChoices == {0, 7, 13}

NameChoices == {"a", "b"}

(***************************************************************************)
(* Messages of the codec library (mido): one record shape for all kinds,   *)
(* the fields a kind does not carry are 0 or "".                           *)
(***************************************************************************)
Msg(type, time, channel, note, velocity, tempo, name, numerator, denominator, program) ==
    [type |-> type, time |-> time, channel |-> channel, note |-> note,
     velocity |-> velocity, tempo |-> tempo, name |-> name,
     numerator |-> numerator, denominator |-> denominator, program |-> program]

NoteMsg(type, time, channel, note, velocity) ==
    Msg(type, time, channel, note, velocity, 0, "", 0, 0, 0)

SetTempoMsg(time, tempo) == Msg("set_tempo", time, 0, 0, 0, tempo, "", 0, 0, 0)

TrackNameMsg(time, name) == Msg("track_name", time, 0, 0, 0, 0, name, 0, 0, 0)

TimeSignatureMsg(time, numerator, denominator) ==
    Msg("time_signature", time, 0, 0, 0, 0, "", numerator, denominator, 0)

ProgramChangeMsg(time, channel, program) ==
    Msg("program_change", time, channel, 0, 0, 0, "", 0, 0, program)

InputMessages ==
    {NoteMsg("note_on", d, 0, 60, 100) : d \in DeltaChoices}
    \cup {NoteMsg("note_off", d, 0, 60, 100) : d \in DeltaChoices \ {0}}
    \cup {NoteMsg("note_on", 7, 1, 64, 100)}
    \cup {SetTempoMsg(7, 500000), SetTempoMsg(0, 1000000), SetTempoMsg(0, 0)}
    \cup {TrackNameMsg(0, n) : n \in NameChoices}
    \cup {TimeSignatureMsg(7, 3, 8)}
    \cup {ProgramChangeMsg(0, 0, 5)}

(***************************************************************************)
(* midi_to_representation, lines 446-509.                                  *)
(*                                                                         *)
(* Note objects live in note_objs (id -> Note); the list `notes` and the   *)
(* dict `note_look_behind` hold ids, as the Python list and dict hold      *)
(* references to the same objects.                                         *)
(***************************************************************************)
Note(channel, note, velocity, beat, duration) ==
    [channel |-> channel, note |-> note, velocity |-> velocity,
     beat |-> beat, duration |-> duration]

\* State of the per-track loop (lines 453-456) before the first message.
TrackLoopStart ==
    [notes |-> <<>>, note_objs |-> EmptyDict, note_look_behind |-> EmptyDict,
     accumulated_time |-> 0, error |-> "none"]

\* The note_on branch with `behind_note_dur < 0` for the test of line 477: an
\* open note of the same beat is kept.
ImportNoteOnKeepsDegenerate(st, msg, ticks_per_beat) ==
    LET acc      == st.accumulated_time + msg.time
        beat     == FDivInt(acc, ticks_per_beat)
        id       == Cardinality(DOMAIN st.note_objs) + 1
        objs1    == DictPut(st.note_objs, id, Note(msg.channel, msg.note, msg.velocity, beat, 0))
        notes1   == Append(st.notes, id)
        key      == <<msg.note, msg.channel>>
        has      == key \in DOMAIN st.note_look_behind
        behind   == st.note_look_behind[key]
        lb1      == DictPop(st.note_look_behind, key)
        behind_note_dur == FSub(beat, objs1[behind].beat)
        found    == {k \in 1..Len(notes1) : notes1[k] = behind}
        kmin     == CHOOSE k \in found : \A j \in found : k <= j
    IN  IF ~has
        THEN [st EXCEPT !.accumulated_time = acc, !.note_objs = objs1, !.notes = notes1,
                        !.note_look_behind = DictPut(lb1, key, id)]
        ELSE IF behind_note_dur < 0
        THEN [st EXCEPT !.accumulated_time = acc, !.note_objs = objs1,
                        !.notes = RemoveAt(notes1, kmin),
                        !.note_look_behind = DictPut(lb1, key, id)]
        ELSE [st EXCEPT !.accumulated_time = acc,
                        !.note_objs = [objs1 EXCEPT ![behind].duration = behind_note_dur],
                        !.notes = notes1,
                        !.note_look_behind = DictPut(lb1, key, id)]

\* Lines 461-486: the note_on branch.
ImportNoteOn(st, msg, ticks_per_beat) ==
    LET acc      == st.accumulated_time + msg.time
        beat     == FDivInt(acc, ticks_per_beat)
        id       == Cardinality(DOMAIN st.note_objs) + 1
        objs1    == DictPut(st.note_objs, id, Note(msg.channel, msg.note, msg.velocity, beat, 0))
        notes1   == Append(st.notes, id)
        key      == <<msg.note, msg.channel>>
        has      == key \in DOMAIN st.note_look_behind
        behind   == st.note_look_behind[key]
        lb1      == DictPop(st.note_look_behind, key)
        behind_note_dur == FSub(beat, objs1[behind].beat)
        found    == {k \in 1..Len(notes1) : notes1[k] = behind}
        kmin     == CHOOSE k \in found : \A j \in found : k <= j
    IN  IF ~has
        THEN [st EXCEPT !.accumulated_time = acc, !.note_objs = objs1, !.notes = notes1,
                        !.note_look_behind = DictPut(lb1, key, id)]
        ELSE IF behind_note_dur <= 0
        THEN IF found = {}
             THEN [st EXCEPT !.accumulated_time = acc, !.note_objs = objs1, !.notes = notes1,
                             !.note_look_behind = lb1, !.error = "AssertionError"]
             ELSE [st EXCEPT !.accumulated_time = acc, !.note_objs = objs1,
                             !.notes = RemoveAt(notes1, kmin),
                             !.note_look_behind = DictPut(lb1, key, id)]
        ELSE [st EXCEPT !.accumulated_time = acc,
                        !.note_objs = [objs1 EXCEPT ![behind].duration = behind_note_dur],
                        !.notes = notes1,
                        !.note_look_behind = DictPut(lb1, key, id)]

\* The note_off branch without the pop of line 489: the closed note stays in
\* the look-behind table.
ImportNoteOffKeepsOpen(st, msg, ticks_per_beat) ==
    LET acc      == st.accumulated_time + msg.time
        key      == <<msg.note, msg.channel>>
        has      == key \in DOMAIN st.note_look_behind
        fetched  == st.note_look_behind[key]
        beat     == FDivInt(acc, ticks_per_beat)
        duration == FSub(beat, st.note_objs[fetched].beat)
    IN  IF ~has
        THEN [st EXCEPT !.accumulated_time = acc]
        ELSE [st EXCEPT !.accumulated_time = acc,
                        !.note_objs = [@ EXCEPT ![fetched].duration = Max2(0, duration)]]

\* Lines 488-496: the note_off branch.
ImportNoteOff(st, msg, ticks_per_beat) ==
    LET acc      == st.accumulated_time + msg.time
        key      == <<msg.note, msg.channel>>
        has      == key \in DOMAIN st.note_look_behind
        fetched  == st.note_look_behind[key]
        lb1      == DictPop(st.note_look_behind, key)
        beat     == FDivInt(acc, ticks_per_beat)
        duration == FSub(beat, st.note_objs[fetched].beat)
    IN  IF ~has
        THEN [st EXCEPT !.accumulated_time = acc]
        ELSE IF st.note_objs[fetched].duration # 0
        THEN [st EXCEPT !.accumulated_time = acc, !.note_look_behind = lb1,
                        !.error = "AssertionError"]
        ELSE [st EXCEPT !.accumulated_time = acc, !.note_look_behind = lb1,
                        !.note_objs = [@ EXCEPT ![fetched].duration = Max2(0, duration)]]

\* Lines 457-496: one iteration of `for msg in track`.
ImportMsg(st, msg, ticks_per_beat) ==
    IF msg.type = "note_on" THEN ImportNoteOn(st, msg, ticks_per_beat)
    ELSE IF msg.type = "note_off" THEN ImportNoteOff(st, msg, ticks_per_beat)
    ELSE [st EXCEPT !.accumulated_time = st.accumulated_time + msg.time]

\* The whole loop over one track; it stops at the first failed assertion.
RECURSIVE ImportTrackFrom(_, _, _)
ImportTrackFrom(st, track, ticks_per_beat) ==
    IF track = <<>> \/ st.error # "none" THEN st
    ELSE ImportTrackFrom(ImportMsg(st, Head(track), ticks_per_beat), Tail(track), ticks_per_beat)

\* The notes of the finished track, line 498.
TrackNotes(st) == [k \in 1..Len(st.notes) |-> st.note_objs[st.notes[k]]]

(***************************************************************************)
(* File-level scans of the importer, lines 512-581.                        *)
(***************************************************************************)
TempoChange(beat, new_bpm) == [beat |-> beat, new_bpm |-> new_bpm]

TimeSignature(numerator, denominator, beat) ==
    [numerator |-> numerator, denominator |-> denominator, beat |-> beat]

\* A BPM value is kept as the exact reduced fraction n/d.
Bpm(n, d) == LET g == Gcd(Abs(n), d) IN [n |-> n \div g, d |-> d \div g]

\* mido.tempo2bpm(tempo) = 60000000 / tempo, called at line 521 (tempo # 0).
Tempo2Bpm(tempo) == Bpm(60000000, tempo)

RECURSIVE Concat(_)
Concat(tracks) == IF tracks = <<>> THEN <<>> ELSE Head(tracks) \o Concat(Tail(tracks))

\* Lines 537-541.
augment_total_time(tt) == IF tt = 0 THEN tt ELSE tt + 1

\* Lines 515-524: the collecting loop; total_time runs over the whole file.
RECURSIVE CollectTempoChanges(_, _, _, _)
CollectTempoChanges(msgs, total_time, tempo_changes, ticks_per_beat) ==
    IF msgs = <<>> THEN [error |-> "none", value |-> tempo_changes]
    ELSE LET msg == Head(msgs)
             tt  == total_time + msg.time
         IN  IF msg.type # "set_tempo"
             THEN CollectTempoChanges(Tail(msgs), tt, tempo_changes, ticks_per_beat)
             ELSE IF msg.tempo = 0
             THEN [error |-> "ZeroDivisionError", value |-> tempo_changes]
             ELSE LET bpm   == Tempo2Bpm(msg.tempo)
                      beats == FDivInt(augment_total_time(tt), ticks_per_beat)
                      dup   == \E k \in 1..Len(tempo_changes) :
                                  tempo_changes[k].beat = beats /\ tempo_changes[k].new_bpm = bpm
                  IN  CollectTempoChanges(Tail(msgs), tt,
                          IF dup THEN tempo_changes
                          ELSE Append(tempo_changes, TempoChange(beats, bpm)),
                          ticks_per_beat)

\* Lines 527-534: the duplicate remover, tempo_slider starts at -1.0.
RECURSIVE RemoveDuplicateTempos(_, _)
RemoveDuplicateTempos(tempo_changes, tempo_slider) ==
    IF tempo_changes = <<>> THEN <<>>
    ELSE LET tc == Head(tempo_changes)
         IN  IF tempo_slider # tc.new_bpm
             THEN <<tc>> \o RemoveDuplicateTempos(Tail(tempo_changes), tc.new_bpm)
             ELSE RemoveDuplicateTempos(Tail(tempo_changes), tempo_slider)

\* Lines 512-534.
get_tempo_changes(midi) ==
    LET c == CollectTempoChanges(Concat(midi.tracks), 0, <<>>, midi.ticks_per_beat)
    IN  IF c.error # "none" THEN c
        ELSE [error |-> "none",
              value |-> RemoveDuplicateTempos(SortByBeat(c.value), Bpm(-1, 1))]

\* Lines 544-554.
RECURSIVE CollectTimeSignatures(_, _, _, _)
CollectTimeSignatures(msgs, total_time, time_signature_changes, ticks_per_beat) ==
    IF msgs = <<>> THEN time_signature_changes
    ELSE LET msg == Head(msgs)
             tt  == total_time + msg.time
         IN  CollectTimeSignatures(Tail(msgs), tt,
                 IF msg.type = "time_signature"
                 THEN Append(time_signature_changes,
                             TimeSignature(msg.numerator, msg.denominator,
                                           FDivInt(tt, ticks_per_beat)))
                 ELSE time_signature_changes,
                 ticks_per_beat)

get_time_signature(midi) ==
    CollectTimeSignatures(Concat(midi.tracks), 0, <<>>, midi.ticks_per_beat)

\* Lines 567-569: the inner loop over one track, track_names[i] = msg.name.
RECURSIVE ScanTrackName(_, _, _)
ScanTrackName(track, i, track_names) ==
    IF track = <<>> THEN track_names
    ELSE ScanTrackName(Tail(track), i,
             IF Head(track).type = "track_name"
             THEN DictPut(track_names, i, Head(track).name)
             ELSE track_names)

\* Lines 563-570; track k of the sequence has index k - 1.
RECURSIVE ScanTrackNames(_, _, _)
ScanTrackNames(tracks, k, track_names) ==
    IF k > Len(tracks) THEN track_names
    ELSE ScanTrackNames(tracks, k + 1, ScanTrackName(tracks[k], k - 1, track_names))

get_track_names(midi) == ScanTrackNames(midi.tracks, 1, EmptyDict)

\* Lines 573-581.
RECURSIVE ScanProgramChanges(_, _)
ScanProgramChanges(msgs, channel_to_instrument) ==
    IF msgs = <<>> THEN channel_to_instrument
    ELSE ScanProgramChanges(Tail(msgs),
             IF Head(msgs).type = "program_change"
             THEN DictPut(channel_to_instrument, Head(msgs).channel, Head(msgs).program)
             ELSE channel_to_instrument)

get_channel_to_instrument_mapping(midi) == ScanProgramChanges(Concat(midi.tracks), EmptyDict)

\* dict.get(key, default)
DictGet(d, k, default) == IF k \in DOMAIN d THEN d[k] ELSE default

Track(notes, track_name) == [notes |-> notes, track_name |-> track_name]

MidiRepresentation(tracks, channel_instrument_map, bpm_changes, time_signature_changes) ==
    [tracks |-> tracks, channel_instrument_map |-> channel_instrument_map,
     bpm_changes |-> bpm_changes, time_signature_changes |-> time_signature_changes]

\* Lines 266-272.
clear_empty_tracks(tracks) ==
    [i \in {j \in DOMAIN tracks : Len(tracks[j].notes) # 0} |-> tracks[i]]

\* Lines 497-498 for track index i, given the finished loop state.
FinishedTrack(st, midi, i) == Track(TrackNotes(st), DictGet(get_track_names(midi), i, ""))

\* Lines 500-509, given the dict of tracks built by the loop.
BuildRepresentation(tracks, midi) ==
    LET tc == get_tempo_changes(midi)
    IN  IF tc.error # "none" THEN [error |-> tc.error, value |-> <<>>]
        ELSE [error |-> "none",
              value |-> MidiRepresentation(clear_empty_tracks(tracks),
                                           get_channel_to_instrument_mapping(midi),
                                           tc.value, get_time_signature(midi))]

\* Lines 452-498 over all tracks of a complete file.
RECURSIVE ImportTracks(_, _, _)
ImportTracks(midi, k, tracks) ==
    IF k > Len(midi.tracks) THEN [error |-> "none", value |-> tracks]
    ELSE LET st == ImportTrackFrom(TrackLoopStart, midi.tracks[k], midi.ticks_per_beat)
         IN  IF st.error # "none" THEN [error |-> st.error, value |-> tracks]
             ELSE ImportTracks(midi, k + 1, DictPut(tracks, k - 1, FinishedTrack(st, midi, k - 1)))

\* Lines 446-509 as a function of a complete file.
midi_to_representation(midi) ==
    LET t == ImportTracks(midi, 1, EmptyDict)
    IN  IF t.error # "none" THEN [error |-> t.error, value |-> <<>>]
        ELSE BuildRepresentation(t.value, midi)

(***************************************************************************)
(* representation_to_midi_file, lines 375-443.                             *)
(***************************************************************************)
MidiEvent(note, event_time, on) == [note |-> note, event_time |-> event_time, on |-> on]

\* list.sort(key=lambda t: t.event_time), line 430: stable.
RECURSIVE InsertByEventTime(_, _)
InsertByEventTime(s, x) ==
    IF s = <<>> THEN <<x>>
    ELSE IF s[Len(s)].event_time <= x.event_time THEN Append(s, x)
    ELSE Append(InsertByEventTime(SubSeq(s, 1, Len(s) - 1), x), s[Len(s)])

RECURSIVE SortByEventTime(_)
SortByEventTime(s) ==
    IF s = <<>> THEN <<>>
    ELSE InsertByEventTime(SortByEventTime(SubSeq(s, 1, Len(s) - 1)), s[Len(s)])

\* Line 396: int(60000000 / new_bpm) for new_bpm = n/d, n # 0; int()
\* truncates toward zero.
BpmToMicroseconds(new_bpm) ==
    LET q == (60000000 * new_bpm.d) \div Abs(new_bpm.n)
    IN  IF new_bpm.n < 0 THEN -q ELSE q

\* Line 401: the codec library accepts a set_tempo value of 0..0xffffff only
\* and raises ValueError for any other.
SetTempoRejected(tempo_in_microseconds) ==
    tempo_in_microseconds < 0 \/ tempo_in_microseconds > Pow2(24) - 1

\* Lines 394-402: the exception that ends the loop over the tempo changes,
\* "none" if it runs to its end: line 396 divides by new_bpm, line 401 hands
\* the result to the library.
RECURSIVE TempoMessagesError(_)
TempoMessagesError(bpm_changes) ==
    IF bpm_changes = <<>> THEN "none"
    ELSE IF Head(bpm_changes).new_bpm.n = 0 THEN "ZeroDivisionError"
    ELSE IF SetTempoRejected(BpmToMicroseconds(Head(bpm_changes).new_bpm)) THEN "ValueError"
    ELSE TempoMessagesError(Tail(bpm_changes))

\* Lines 394-402: the set_tempo messages of a loop that runs to its end.
RECURSIVE TempoMessages(_, _)
TempoMessages(bpm_changes, previous_tc) ==
    IF bpm_changes = <<>> THEN <<>>
    ELSE LET bpm_change == Head(bpm_changes)
             tempo_in_microseconds == BpmToMicroseconds(bpm_change.new_bpm)
             tc_time_now == FInt(FMulInt(bpm_change.beat, DEFAULT_TICKS_PER_BEAT))
             time_delta  == tc_time_now - previous_tc
         IN  <<SetTempoMsg(time_delta, tempo_in_microseconds)>>
             \o TempoMessages(Tail(bpm_changes), tc_time_now)

\* Lines 144-151: Counter(channels).most_common(1)[0][0], the first channel
\* (in order of first occurrence) among those with the highest count.
most_used_channel(track) ==
    IF Len(track.notes) = 0 THEN -1
    ELSE LET n        == Len(track.notes)
             count(c) == Cardinality({k \in 1..n : track.notes[k].channel = c})
             first(c) == CHOOSE k \in 1..n : /\ track.notes[k].channel = c
                                            /\ \A j \in 1..(k - 1) : track.notes[j].channel # c
             chans    == {track.notes[k].channel : k \in 1..n}
         IN  CHOOSE c \in chans :
                 \A o \in chans \ {c} :
                     count(c) > count(o) \/ (count(c) = count(o) /\ first(c) < first(o))

\* Lines 346-347.
string_empty_fallback(text, fallback) == IF text # "" THEN text ELSE fallback

\* Lines 427-429.
RECURSIVE NoteEvents(_)
NoteEvents(sorted_notes) ==
    IF sorted_notes = <<>> THEN <<>>
    ELSE LET note == Head(sorted_notes)
         IN  <<MidiEvent(note, note.beat, TRUE),
               MidiEvent(note, FAdd(note.beat, note.duration), FALSE)>>
             \o NoteEvents(Tail(sorted_notes))

\* The loop of lines 432-440 without line 436: previous_beat stays 0 and
\* every message carries its absolute tick.
RECURSIVE EventMessagesAbsolute(_, _)
EventMessagesAbsolute(midi_events, previous_beat) ==
    IF midi_events = <<>> THEN <<>>
    ELSE LET event == Head(midi_events)
             time  == FInt(FMulInt(event.event_time, DEFAULT_TICKS_PER_BEAT))
             delta_time == time - previous_beat
         IN  <<NoteMsg(IF event.on THEN "note_on" ELSE "note_off", delta_time,
                       event.note.channel, event.note.note, event.note.velocity)>>
             \o EventMessagesAbsolute(Tail(midi_events), previous_beat)

\* Lines 432-440.
RECURSIVE EventMessages(_, _)
EventMessages(midi_events, previous_beat) ==
    IF midi_events = <<>> THEN <<>>
    ELSE LET event == Head(midi_events)
             time  == FInt(FMulInt(event.event_time, DEFAULT_TICKS_PER_BEAT))
             delta_time == time - previous_beat
         IN  <<NoteMsg(IF event.on THEN "note_on" ELSE "note_off", delta_time,
                       event.note.channel, event.note.note, event.note.velocity)>>
             \o EventMessages(Tail(midi_events), time)

\* Lines 411-441: the MidiTrack of one music track.
ExportTrack(rep, track_no) ==
    LET track == rep.tracks[track_no]
        track_name_message ==
            TrackNameMsg(0, string_empty_fallback(track.track_name,
                                                  "Unknown Track " \o ToString(track_no)))
        track_channel == most_used_channel(track)
        track_instrument == DictGet(rep.channel_instrument_map, track_channel, 0)
        program ==
            IF track_channel >= 0 /\ track_instrument >= 0
            THEN <<ProgramChangeMsg(0, track_channel, track_instrument)>>
            ELSE <<>>
        midi_events == SortByEventTime(NoteEvents(SortByBeat(track.notes)))
    IN  <<track_name_message>> \o program \o EventMessages(midi_events, 0)

\* Lines 407-410: the tracks in increasing index order.
RECURSIVE ExportTracks(_, _)
ExportTracks(rep, todo) ==
    IF todo = {} THEN <<>>
    ELSE LET track_no == CHOOSE i \in todo : \A j \in todo : i <= j
         IN  <<ExportTrack(rep, track_no)>> \o ExportTracks(rep, todo \ {track_no})

\* Lines 375-443.
representation_to_midi_file(rep) ==
    IF TempoMessagesError(SortByBeat(rep.bpm_changes)) # "none"
    THEN [error |-> TempoMessagesError(SortByBeat(rep.bpm_changes)), value |-> <<>>]
    ELSE [error |-> "none",
          value |-> [ticks_per_beat |-> DEFAULT_TICKS_PER_BEAT,
                     tracks |-> <<(<<TrackNameMsg(0, "Tempo changes")>>
                                   \o TempoMessages(SortByBeat(rep.bpm_changes), 0))>>
                                \o ExportTracks(rep, DOMAIN rep.tracks)]]

(***************************************************************************)
(* State.                                                                  *)
(***************************************************************************)
VARIABLES
    pc,                   \* position of the pipeline being run
    midi_file,            \* the decoded input file, as far as it has been read
    notes,                \* importer: the note list of the current track (ids)
    note_objs,            \* importer: the Note objects of the current track
    note_look_behind,     \* importer: (pitch, channel) -> open Note (id)
    accumulated_time,     \* importer: running tick count of the current track
    tracks,               \* importer: index -> finished Track
    error,                \* the exception that ended the run, or "none"
    midi_representation,  \* the imported MidiRepresentation
    exported_file,        \* representation_to_midi_file(midi_representation)
    representation_2,     \* midi_to_representation(exported_file)
    swing,                \* arguments and results of to_swing / from_swing
    clamp,                \* arguments and result of clamp_sorted
    chords,               \* the track handed to no_chords and its result
    tempo,                \* arguments, loop state and result of augment_note_list
    barsys                \* a MidiRepresentation, its bars and their reassembly

roundTripVars ==
    <<midi_file, notes, note_objs, note_look_behind, accumulated_time, tracks,
      midi_representation, exported_file, representation_2>>

otherVars == <<swing, clamp, chords, tempo, barsys>>

vars == <<pc, error, roundTripVars, otherVars>>

\* The value of the variables of a subsystem that a specification does not run.
Unused == <<>>

RoundTripUnused ==
    /\ midi_file = Unused
    /\ notes = Unused
    /\ note_objs = Unused
    /\ note_look_behind = Unused
    /\ accumulated_time = 0
    /\ tracks = Unused
    /\ midi_representation = Unused
    /\ exported_file = Unused
    /\ representation_2 = Unused

(***************************************************************************)
(* SpecRoundTrip: process_and_save_midi with the identity filter, followed *)
(* by a second import of the exported file.  The messages of the input     *)
(* file are drawn one at a time while the importer consumes them; the      *)
(* file-level scans (lines 450, 451, 503, 504) are functions of the whole  *)
(* file and are evaluated where their result is first used.                *)
(***************************************************************************)
LoopState ==
    [notes |-> notes, note_objs |-> note_objs, note_look_behind |-> note_look_behind,
     accumulated_time |-> accumulated_time, error |-> "none"]

SetLoopState(st) ==
    /\ notes' = st.notes
    /\ note_objs' = st.note_objs
    /\ note_look_behind' = st.note_look_behind
    /\ accumulated_time' = st.accumulated_time

MsgCount == Len(Concat(midi_file.tracks))

CurrentTrackNo == Len(midi_file.tracks) - 1

WithMessage(midi, msg) ==
    [midi EXCEPT !.tracks[Len(midi.tracks)] = Append(@, msg)]

InitRoundTrip ==
    /\ pc = "importing"
    /\ error = "none"
    /\ midi_file \in {[ticks_per_beat |-> t, tracks |-> <<(<<>>)>>] : t \in TicksPerBeatChoices}
    /\ notes = TrackLoopStart.notes
    /\ note_objs = TrackLoopStart.note_objs
    /\ note_look_behind = TrackLoopStart.note_look_behind
    /\ accumulated_time = TrackLoopStart.accumulated_time
    /\ tracks = EmptyDict
    /\ midi_representation = <<>>
    /\ exported_file = <<>>
    /\ representation_2 = <<>>
    /\ swing = Unused /\ clamp = Unused /\ chords = Unused /\ tempo = Unused /\ barsys = Unused

\* One iteration of the message loop, lines 457-496.
ReadMessage(msg) ==
    /\ pc = "importing"
    /\ MsgCount < MaxMsgs
    /\ \E st \in {ImportMsg(LoopState, msg, midi_file.ticks_per_beat)} :
           /\ SetLoopState(st)
           /\ error' = st.error
           /\ pc' = IF st.error = "none" THEN "importing" ELSE "aborted"
    /\ midi_file' = WithMessage(midi_file, msg)
    /\ UNCHANGED <<tracks, midi_representation, exported_file, representation_2, otherVars>>

ReadNoteOn == \E msg \in InputMessages : msg.type = "note_on" /\ ReadMessage(msg)

ReadNoteOff == \E msg \in InputMessages : msg.type = "note_off" /\ ReadMessage(msg)

ReadOther ==
    \E msg \in InputMessages : msg.type \notin {"note_on", "note_off"} /\ ReadMessage(msg)

\* Lines 497-498 for the current track, then lines 453-456 for the next one.
NextTrack ==
    /\ pc = "importing"
    /\ Len(midi_file.tracks) < MaxTracks
    /\ tracks' = DictPut(tracks, CurrentTrackNo, FinishedTrack(LoopState, midi_file, CurrentTrackNo))
    /\ midi_file' = [midi_file EXCEPT !.tracks = Append(@, <<>>)]
    /\ SetLoopState(TrackLoopStart)
    /\ UNCHANGED <<pc, error, midi_representation, exported_file, representation_2, otherVars>>

\* Lines 497-509 after the last message of the last track.
FinishImport ==
    /\ pc = "importing"
    /\ \E all \in {DictPut(tracks, CurrentTrackNo,
                           FinishedTrack(LoopState, midi_file, CurrentTrackNo))} :
       \E r \in {BuildRepresentation(all, midi_file)} :
           /\ tracks' = all
           /\ error' = r.error
           /\ pc' = IF r.error = "none" THEN "imported" ELSE "aborted"
           /\ midi_representation' = r.value
    /\ UNCHANGED <<midi_file, notes, note_objs, note_look_behind, accumulated_time,
                   exported_file, representation_2, otherVars>>

\* Line 589 (the filter of line 588 being the identity).
Export ==
    /\ pc = "imported"
    /\ \E r \in {representation_to_midi_file(midi_representation)} :
           /\ exported_file' = r.value
           /\ error' = r.error
           /\ pc' = IF r.error = "none" THEN "exported" ELSE "aborted"
    /\ UNCHANGED <<midi_file, notes, note_objs, note_look_behind, accumulated_time,
                   tracks, midi_representation, representation_2, otherVars>>

\* The exported file is imported again.
Reimport ==
    /\ pc = "exported"
    /\ \E r \in {midi_to_representation(exported_file)} :
           /\ representation_2' = r.value
           /\ error' = r.error
           /\ pc' = IF r.error = "none" THEN "reimported" ELSE "aborted"
    /\ UNCHANGED <<midi_file, notes, note_objs, note_look_behind, accumulated_time,
                   tracks, midi_representation, exported_file, otherVars>>

NextRoundTrip ==
    \/ ReadNoteOn
    \/ ReadNoteOff
    \/ ReadOther
    \/ NextTrack
    \/ FinishImport
    \/ Export
    \/ Reimport

SpecRoundTrip == InitRoundTrip /\ [][NextRoundTrip]_vars

(***************************************************************************)
(* Properties of the import / export round trip.                           *)
(***************************************************************************)
NoTempoOrTimeSignature(midi) ==
    \A k \in 1..Len(Concat(midi.tracks)) :
        Concat(midi.tracks)[k].type \notin {"set_tempo", "time_signature"}

\* The notes of all tracks of a representation, in track index order.
RECURSIVE NotesOfTracks(_, _)
NotesOfTracks(rep, todo) ==
    IF todo = {} THEN <<>>
    ELSE LET i == CHOOSE j \in todo : \A o \in todo : j <= o
         IN  rep.tracks[i].notes \o NotesOfTracks(rep, todo \ {i})

AllNotes(rep) == NotesOfTracks(rep, DOMAIN rep.tracks)

\* |x - y| <= 1 / ticks_per_beat of the exported file, for floats x and y.
WithinOneTick(x, y) == Abs(x - y) * DEFAULT_TICKS_PER_BEAT <= FUnit

SameNoteUpToTick(a, b) ==
    /\ a.channel = b.channel
    /\ a.note = b.note
    /\ a.velocity = b.velocity
    /\ WithinOneTick(a.beat, b.beat)
    /\ WithinOneTick(a.duration, b.duration)

SameNotesUpToTick(A, B) ==
    /\ Len(A) = Len(B)
    /\ \E p \in Permutations(1..Len(A)) :
           \A k \in 1..Len(A) : SameNoteUpToTick(A[k], B[p[k]])

\* C1: for a file without set-tempo and time-signature events, importing
\* the export of the imported representation completes and yields the same
\* multiset of notes, each beat and duration within 1/ticks_per_beat.
C1_RoundTripKeepsNotes ==
    (exported_file # <<>> /\ pc # "exported" /\ NoTempoOrTimeSignature(midi_file))
        => /\ pc = "reimported"
           /\ SameNotesUpToTick(AllNotes(midi_representation), AllNotes(representation_2))

\* C3: the import of any message stream completes: it ends in no exception.
C3_ImporterNeverAborts ==
    exported_file = <<>> => error = "none"

\* The two assertions of the note branches (lines 483 and 491) never fail.
AssertionsNeverFail == error # "AssertionError"

\* Every note held in the look-behind table has duration 0 and is in the
\* note list of the track.
LookBehindNotesAreOpen ==
    pc = "importing" =>
        \A key \in DOMAIN note_look_behind :
            /\ note_objs[note_look_behind[key]].duration = 0
            /\ \E k \in 1..Len(notes) : notes[k] = note_look_behind[key]

(***************************************************************************)
(* Properties of one iteration of the importer's message loop.             *)
(***************************************************************************)
CurrentTrack(midi) == midi.tracks[Len(midi.tracks)]

LastMsg(midi) == CurrentTrack(midi)[Len(CurrentTrack(midi))]

\* This step consumed one message of the given type from the current track
\* and the loop goes on.
ConsumedMessage(type) ==
    /\ pc = "importing"
    /\ pc' = "importing"
    /\ Len(midi_file'.tracks) = Len(midi_file.tracks)
    /\ Len(CurrentTrack(midi_file')) = Len(CurrentTrack(midi_file)) + 1
    /\ LastMsg(midi_file').type = type

\* The beat of the message just consumed (lines 459 and 462 / 492).
BeatNow == FDivInt(accumulated_time', midi_file.ticks_per_beat)

\* The table maps the same keys to the same notes before and after, except
\* possibly for key.
SameTableExcept(key) ==
    /\ (DOMAIN note_look_behind') \ {key} = (DOMAIN note_look_behind) \ {key}
    /\ \A k \in (DOMAIN note_look_behind) \ {key} : note_look_behind'[k] = note_look_behind[k]

\* Every note that exists before the step is the same after it, except
\* possibly the note id.
SameNotesExcept(id) ==
    \A o \in (DOMAIN note_objs) \ {id} : o \in DOMAIN note_objs' /\ note_objs'[o] = note_objs[o]

NoteOffStepEffect ==
    LET msg == LastMsg(midi_file')
        key == <<msg.note, msg.channel>>
    IN  IF key \in DOMAIN note_look_behind
        THEN LET open == note_look_behind[key]
             IN  /\ key \notin DOMAIN note_look_behind'
                 /\ SameTableExcept(key)
                 /\ notes' = notes
                 /\ DOMAIN note_objs' = DOMAIN note_objs
                 /\ SameNotesExcept(open)
                 /\ note_objs'[open]
                      = [note_objs[open] EXCEPT
                            !.duration = Max2(0, FSub(BeatNow, note_objs[open].beat))]
        ELSE /\ notes' = notes
             /\ note_objs' = note_objs
             /\ note_look_behind' = note_look_behind

\* C12: a note-off for key (pitch, channel) at beat t removes the note open
\* on that key from the open-notes table and sets its duration to
\* max(0, t - its beat); with no note open on the key, the note list and the
\* table stay as they are.
C12_NoteOffStep == [][ConsumedMessage("note_off") => NoteOffStepEffect]_vars

\* An unmatched note-off, a note-on and a later note-off of the same key have
\* been read: the note is closed with a positive duration.
C12_Witness ==
    /\ pc = "importing"
    /\ Len(CurrentTrack(midi_file)) = 3
    /\ CurrentTrack(midi_file)[1].type = "note_off"
    /\ CurrentTrack(midi_file)[2].type = "note_on"
    /\ CurrentTrack(midi_file)[3].type = "note_off"
    /\ CurrentTrack(midi_file)[2].note = CurrentTrack(midi_file)[3].note
    /\ CurrentTrack(midi_file)[2].channel = CurrentTrack(midi_file)[3].channel
    /\ note_look_behind = EmptyDict
    /\ Len(notes) = 1
    /\ note_objs[notes[1]].duration > 0

\* The note list without the note id.
RECURSIVE Without(_, _)
Without(ids, id) ==
    IF ids = <<>> THEN <<>>
    ELSE IF Head(ids) = id THEN Without(Tail(ids), id)
    ELSE <<Head(ids)>> \o Without(Tail(ids), id)

NoteOnCollisionEffect ==
    LET msg  == LastMsg(midi_file')
        key  == <<msg.note, msg.channel>>
        open == note_look_behind[key]
        new  == notes'[Len(notes')]
    IN  /\ notes' # <<>>
        /\ new \notin DOMAIN note_objs
        /\ DOMAIN note_objs' = (DOMAIN note_objs) \cup {new}
        /\ note_objs'[new] = Note(msg.channel, msg.note, msg.velocity, BeatNow, 0)
        /\ key \in DOMAIN note_look_behind'
        /\ note_look_behind'[key] = new
        /\ SameTableExcept(key)
        /\ SameNotesExcept(open)
        /\ IF BeatNow > note_objs[open].beat
           THEN /\ notes' = Append(notes, new)
                /\ note_objs'[open]
                     = [note_objs[open] EXCEPT !.duration = FSub(BeatNow, note_objs[open].beat)]
           ELSE notes' = Append(Without(notes, open), new)

\* C13: a note-on for a key that has an open note: when its beat is strictly
\* greater than the open note's beat, the open note stays in the list with
\* duration = new beat - its beat, otherwise the open note leaves the list;
\* either way the new note, of duration 0, is appended and is the note open
\* on that key.
C13_NoteOnCollisionStep ==
    [][(ConsumedMessage("note_on")
          /\ <<LastMsg(midi_file').note, LastMsg(midi_file').channel>> \in DOMAIN note_look_behind)
        => NoteOnCollisionEffect]_vars

\* Three note-ons of one key: the second at the beat of the first, which was
\* dropped, the third later, which gave the second its duration.
C13_Witness ==
    /\ pc = "importing"
    /\ Len(CurrentTrack(midi_file)) = 3
    /\ \A k \in 1..3 :
           /\ CurrentTrack(midi_file)[k].type = "note_on"
           /\ CurrentTrack(midi_file)[k].note = CurrentTrack(midi_file)[1].note
           /\ CurrentTrack(midi_file)[k].channel = CurrentTrack(midi_file)[1].channel
    /\ CurrentTrack(midi_file)[2].time = 0
    /\ CurrentTrack(midi_file)[3].time > 0
    /\ Len(notes) = 2
    /\ note_objs[notes[1]].duration > 0
    /\ note_objs[notes[2]].duration = 0
    /\ DOMAIN note_look_behind = {<<CurrentTrack(midi_file)[1].note, CurrentTrack(midi_file)[1].channel>>}
    /\ \A key \in DOMAIN note_look_behind : note_look_behind[key] = notes[2]

(***************************************************************************)
(* Properties of the imported representation.                              *)
(***************************************************************************)
\* C14: in every imported track each note has duration >= 0, and of two
\* notes of one pitch and channel the beats differ and the earlier one ends
\* (beat + duration, as a float sum) no later than the other begins.
C14_ImportedNotesDoNotOverlap ==
    pc = "imported" =>
        \A t \in DOMAIN midi_representation.tracks :
            LET ns == midi_representation.tracks[t].notes
            IN  /\ \A k \in DOMAIN ns : ns[k].duration >= 0
                /\ \A i, j \in DOMAIN ns :
                       (i # j /\ ns[i].note = ns[j].note /\ ns[i].channel = ns[j].channel
                          /\ ns[i].beat <= ns[j].beat)
                       => /\ ns[i].beat # ns[j].beat
                          /\ FAdd(ns[i].beat, ns[i].duration) <= ns[j].beat

\* The sum of the delta times of the first k messages.
RECURSIVE TicksUpTo(_, _)
TicksUpTo(msgs, k) == IF k = 0 THEN 0 ELSE TicksUpTo(msgs, k - 1) + msgs[k].time

\* C15: the beat of every imported tempo change is the running sum of the
\* delta times of the file's messages up to and including its set-tempo
\* message, divided by ticks_per_beat: the beat a time signature at the same
\* position gets.
C15_TempoBeatIsRunningSum ==
    pc = "imported" =>
        LET msgs == Concat(midi_file.tracks)
        IN  \A c \in DOMAIN midi_representation.bpm_changes :
                \E k \in DOMAIN msgs :
                    /\ msgs[k].type = "set_tempo"
                    /\ msgs[k].tempo # 0
                    /\ midi_representation.bpm_changes[c].new_bpm = Tempo2Bpm(msgs[k].tempo)
                    /\ midi_representation.bpm_changes[c].beat
                         = FDivInt(TicksUpTo(msgs, k), midi_file.ticks_per_beat)

\* The positions of the track-name events of a track.
TrackNamePositions(track) == {k \in DOMAIN track : track[k].type = "track_name"}

\* C17: the name of an imported track is the name of the first track-name
\* event of that track of the file, and "" when the track has none.
C17_FirstTrackNameWins ==
    pc = "imported" =>
        \A i \in DOMAIN midi_representation.tracks :
            LET track == midi_file.tracks[i + 1]
                at    == TrackNamePositions(track)
            IN  IF at = {}
                THEN midi_representation.tracks[i].track_name = ""
                ELSE \E k \in at :
                        /\ \A j \in at : k <= j
                        /\ midi_representation.tracks[i].track_name = track[k].name

(***************************************************************************)
(* SpecImport: midi_to_representation applied to a whole one-track file of *)
(* set-tempo events.                                                       *)
(***************************************************************************)
MaxScanMsgs == 3

ScanMessages == {SetTempoMsg(t, v) : t \in {0, 7}, v \in {500000, 1000000}}

ScanFiles ==
    {[ticks_per_beat |-> DEFAULT_TICKS_PER_BEAT, tracks |-> <<msgs>>] :
        msgs \in UNION {[1..n -> ScanMessages] : n \in 0..MaxScanMsgs}}

InitImport ==
    /\ pc = "file"
    /\ error = "none"
    /\ midi_file \in ScanFiles
    /\ notes = Unused
    /\ note_objs = Unused
    /\ note_look_behind = Unused
    /\ accumulated_time = 0
    /\ tracks = Unused
    /\ midi_representation = Unused
    /\ exported_file = Unused
    /\ representation_2 = Unused
    /\ swing = Unused /\ clamp = Unused /\ chords = Unused /\ tempo = Unused /\ barsys = Unused

\* Line 587: midi_to_representation(midi_file).
ImportFile ==
    /\ pc = "file"
    /\ \E r \in {midi_to_representation(midi_file)} :
           /\ midi_representation' = r.value
           /\ error' = r.error
           /\ pc' = IF r.error = "none" THEN "imported" ELSE "aborted"
    /\ UNCHANGED <<midi_file, notes, note_objs, note_look_behind, accumulated_time,
                   tracks, exported_file, representation_2, otherVars>>

NextImport == ImportFile

SpecImport == InitImport /\ [][NextImport]_vars

\* The set-tempo events of the file in file order, each at the beat that
\* line 522 gives its position.
RECURSIVE TempoEventsUpTo(_, _, _)
TempoEventsUpTo(msgs, k, ticks_per_beat) ==
    IF k = 0 THEN <<>>
    ELSE IF msgs[k].type = "set_tempo" /\ msgs[k].tempo # 0
    THEN Append(TempoEventsUpTo(msgs, k - 1, ticks_per_beat),
                TempoChange(FDivInt(augment_total_time(TicksUpTo(msgs, k)), ticks_per_beat),
                            Tempo2Bpm(msgs[k].tempo)))
    ELSE TempoEventsUpTo(msgs, k - 1, ticks_per_beat)

\* The same events in beat order, events of one beat in file order.
TempoEventsInBeatOrder ==
    SortByBeat(TempoEventsUpTo(Concat(midi_file.tracks), Len(Concat(midi_file.tracks)),
                               midi_file.ticks_per_beat))

\* The positions that begin a run of consecutive events of equal BPM.
RunHeads(events) ==
    {k \in DOMAIN events : k = 1 \/ events[k].new_bpm # events[k - 1].new_bpm}

\* C16: the imported tempo changes are sorted by beat, no two consecutive
\* ones have the same BPM, and they are exactly the earliest event of each
\* run of consecutive equal-BPM set-tempo events in beat order.
C16_TempoChangesDeduplicated ==
    pc = "imported" =>
        LET out    == midi_representation.bpm_changes
            events == TempoEventsInBeatOrder
            heads  == RunHeads(events)
        IN  /\ \A i, j \in DOMAIN out : i < j => out[i].beat <= out[j].beat
            /\ \A i \in DOMAIN out : i + 1 \in DOMAIN out => out[i].new_bpm # out[i + 1].new_bpm
            /\ Len(out) = Cardinality(heads)
            /\ \A k \in heads : out[Cardinality({h \in heads : h <= k})] = events[k]

(***************************************************************************)
(* Exact arithmetic for the swing transforms.                              *)
(*                                                                         *)
(* swing.py and swing_r.py compare against 0.500000001 and 0.667 and are   *)
(* judged within 1e-7, so the beats of this part are exact multiples of    *)
(* 1 / FxScale beat with FxScale = 3 * 10^10.  Such a number does not fit  *)
(* a 32 bit integer: it is the pair <<hi, lo>> that denotes                *)
(* hi * FxBase + lo, 0 <= lo < FxBase.  All values are >= 0.               *)
(***************************************************************************)
FxBase == 1000 * 1000

\* One beat: FxScale = FxOneHi * FxBase units.
FxOneHi == 3 * 10000

FxNorm(hi, lo) == <<hi + (lo \div FxBase), lo % FxBase>>

FxOfInt(n) == <<n * FxOneHi, 0>>

FxAdd(x, y) == FxNorm(x[1] + y[1], x[2] + y[2])

\* x - y for x >= y
FxSub(x, y) ==
    IF x[2] >= y[2] THEN <<x[1] - y[1], x[2] - y[2]>>
    ELSE <<x[1] - y[1] - 1, x[2] + FxBase - y[2]>>

FxMulInt(x, k) == FxNorm(x[1] * k, x[2] * k)

\* floor(x / k) for a small k > 0
FxDivInt(x, k) == <<x[1] \div k, ((x[1] % k) * FxBase + x[2]) \div k>>

FxLeq(x, y) == x[1] < y[1] \/ (x[1] = y[1] /\ x[2] <= y[2])

FxLess(x, y) == ~FxLeq(y, x)

\* math.floor(x) and x % 1 for x >= 0
FxFloor(x) == x[1] \div FxOneHi

FxMod1(x) == <<x[1] % FxOneHi, x[2]>>

\* |x - y| <= tol
FxWithin(x, y, tol) == FxLeq(x, FxAdd(y, tol)) /\ FxLeq(y, FxAdd(x, tol))

\* 0.500000001 (swing.py line 14), 0.667 (swing_r.py line 14), 1e-7.
SwingThreshold == <<15000, 30>>

UnswingThreshold == <<20010, 0>>

FxEpsilon == <<0, 3000>>

\* swing.py lines 7-20; mult is a positive integer here.
to_swing(beat_count, mult) ==
    LET scaled           == FxMulInt(beat_count, mult)
        beat_decimal     == FxMod1(scaled)
        beat_whole_num   == FxFloor(scaled)
        new_beat_decimal ==
            IF FxLeq(beat_decimal, SwingThreshold)
            THEN FxDivInt(FxMulInt(beat_decimal, 4), 3)
            ELSE FxDivInt(FxAdd(FxMulInt(beat_decimal, 2), FxOfInt(1)), 3)
        new_beat         == FxAdd(FxOfInt(beat_whole_num), new_beat_decimal)
    IN  FxDivInt(new_beat, mult)

\* swing_r.py lines 7-19.
from_swing(beat_count, mult) ==
    LET scaled           == FxMulInt(beat_count, mult)
        beat_decimal     == FxMod1(scaled)
        beat_whole_num   == FxFloor(scaled)
        new_beat_decimal ==
            IF FxLeq(beat_decimal, UnswingThreshold)
            THEN FxDivInt(FxMulInt(beat_decimal, 3), 4)
            ELSE FxDivInt(FxSub(FxMulInt(beat_decimal, 3), FxOfInt(1)), 2)
        new_beat         == FxAdd(FxOfInt(beat_whole_num), new_beat_decimal)
    IN  FxDivInt(new_beat, mult)

(***************************************************************************)
(* SpecSwing: two beats and a multiplier are swung, then de-swung.         *)
(***************************************************************************)
\* Fractions of a beat that are tried: 0, 0.25, 0.2502, 0.5, 0.500000001,
\* 0.5000000012, 0.5004, 0.5005, 0.5006, 0.75.  Each is a multiple of 6
\* units, which keeps every division of the two transforms exact for the
\* multipliers tried.
SwingFractions ==
    {<<0, 0>>, <<7500, 0>>, <<7506, 0>>, <<15000, 0>>, <<15000, 30>>, <<15000, 36>>,
     <<15012, 0>>, <<15015, 0>>, <<15018, 0>>, <<22500, 0>>}

MaxSwingWhole == 1

SwingBeats == {FxAdd(FxOfInt(w), f) : w \in 0..MaxSwingWhole, f \in SwingFractions}

SwingMults == {1, 2}

InitSwing ==
    /\ pc = "swing"
    /\ error = "none"
    /\ swing \in {[beat_count |-> b1, other_beat_count |-> b2, mult |-> m,
                   swung |-> <<>>, other_swung |-> <<>>, unswung |-> <<>>] :
                  b1 \in SwingBeats, b2 \in SwingBeats, m \in SwingMults}
    /\ RoundTripUnused
    /\ clamp = Unused /\ chords = Unused /\ tempo = Unused /\ barsys = Unused

\* to_swing is applied to both beats.
ToSwing ==
    /\ pc = "swing"
    /\ swing' = [swing EXCEPT !.swung = to_swing(swing.beat_count, swing.mult),
                              !.other_swung = to_swing(swing.other_beat_count, swing.mult)]
    /\ pc' = "swung"
    /\ UNCHANGED <<error, roundTripVars, clamp, chords, tempo, barsys>>

\* from_swing is applied to the swung first beat.
FromSwing ==
    /\ pc = "swung"
    /\ swing' = [swing EXCEPT !.unswung = from_swing(swing.swung, swing.mult)]
    /\ pc' = "unswung"
    /\ UNCHANGED <<error, roundTripVars, clamp, chords, tempo, barsys>>

NextSwing == ToSwing \/ FromSwing

SpecSwing == InitSwing /\ [][NextSwing]_vars

\* C7: de-swinging a swung beat gives the beat back, within 1e-7.
C7_SwingRoundTrip ==
    pc = "unswung" => FxWithin(swing.unswung, swing.beat_count, FxEpsilon)

\* C8: to_swing is strictly increasing in the beat.
C8_SwingStrictlyMonotonic ==
    (pc = "swung" /\ FxLess(swing.beat_count, swing.other_beat_count))
        => FxLess(swing.swung, swing.other_swung)

(***************************************************************************)
(* Tolerant comparisons, lines 9-30.                                       *)
(*                                                                         *)
(* Outside the importer and exporter a beat is an exact multiple of        *)
(* 1 / BeatScale beat; EPSILON = 1e-7 is BeatScale / EpsilonInverse units. *)
(***************************************************************************)
EpsilonInverse == 10000000

RelTolInverse == 1000 * 1000 * 1000

BeatScale == 4 * EpsilonInverse

Beats(n) == n * BeatScale

\* math.isclose(x, y, abs_tol=EPSILON) with the default rel_tol = 1e-9:
\* |x - y| <= max(rel_tol * max(|x|, |y|), abs_tol).
IsCloseAbs(x, y) ==
    \/ Abs(x - y) <= Max2(Abs(x), Abs(y)) \div RelTolInverse
    \/ Abs(x - y) <= BeatScale \div EpsilonInverse

\* math.isclose(x, y) with the defaults rel_tol = 1e-9, abs_tol = 0.
IsClose(x, y) == Abs(x - y) <= Max2(Abs(x), Abs(y)) \div RelTolInverse

float_lt(x, y) == x < y /\ ~IsCloseAbs(x, y)

float_gt(x, y) == x > y /\ ~IsCloseAbs(x, y)

float_lte(x, y) == x <= y \/ IsCloseAbs(x, y)

float_gte(x, y) == x >= y \/ IsCloseAbs(x, y)

sandwiched(x, y, z) == float_lte(x, y) /\ float_lt(y, z)

(***************************************************************************)
(* clamp_sorted, lines 350-372.  p and q are Python indices (from 0).      *)
(***************************************************************************)
\* Lines 360-371: the loop from Python index i on.
RECURSIVE ClampLoop(_, _, _, _, _)
ClampLoop(li, i, lo, hi, st) ==
    IF i >= Len(li) \/ (st.p_set /\ st.q_set) THEN st
    ELSE LET val == li[i + 1]
             s1  == IF ~st.p_set /\ float_lte(lo, val)
                    THEN [st EXCEPT !.p_set = TRUE, !.p = i, !.q = Len(li)]
                    ELSE st
             s2  == IF ~s1.q_set /\ float_lte(hi, val)
                    THEN [s1 EXCEPT !.q_set = TRUE, !.q = i]
                    ELSE s1
         IN  ClampLoop(li, i + 1, lo, hi, s2)

\* Lines 350-372, for arguments that pass the two assertions.
clamp_sorted(li, lo, hi) ==
    LET st == ClampLoop(li, 0, lo, hi, [p_set |-> FALSE, q_set |-> FALSE, p |-> 0, q |-> 0])
    IN  <<st.p, st.q>>

IsSortedSeq(li) == \A k \in 1..(Len(li) - 1) : li[k] <= li[k + 1]

(***************************************************************************)
(* SpecClamp: clamp_sorted on a sorted list and bounds a <= b.             *)
(***************************************************************************)
MaxClampLen == 3

\* 1, 2 - 5e-8, 2 and 3 beats.
ClampValues == {Beats(1), Beats(2) - 2, Beats(2), Beats(3)}

ClampLists == {li \in UNION {[1..n -> ClampValues] : n \in 0..MaxClampLen} : IsSortedSeq(li)}

InitClamp ==
    /\ pc = "clamp"
    /\ error = "none"
    /\ clamp \in {[li |-> li, a |-> lo, b |-> hi, p |-> -1, q |-> -1] :
                  li \in ClampLists,
                  lo \in ClampValues, hi \in ClampValues}
    /\ clamp.a <= clamp.b
    /\ RoundTripUnused
    /\ swing = Unused /\ chords = Unused /\ tempo = Unused /\ barsys = Unused

ClampSorted ==
    /\ pc = "clamp"
    /\ LET r == clamp_sorted(clamp.li, clamp.a, clamp.b)
       IN  clamp' = [clamp EXCEPT !.p = r[1], !.q = r[2]]
    /\ pc' = "clamped"
    /\ UNCHANGED <<error, roundTripVars, swing, chords, tempo, barsys>>

NextClamp == ClampSorted

SpecClamp == InitClamp /\ [][NextClamp]_vars

\* C9: the returned (p, q) split the list: everything from index p on is
\* >= a, everything before p is < a, everything before q is < b and
\* everything from q on is >= b (tolerant comparisons, Python indices).
C9_ClampSortedSplits ==
    pc = "clamped" =>
        \A i \in 0..(Len(clamp.li) - 1) :
            LET val == clamp.li[i + 1]
            IN  /\ i >= clamp.p => float_gte(val, clamp.a)
                /\ i < clamp.p => float_lt(val, clamp.a)
                /\ i < clamp.q => float_lt(val, clamp.b)
                /\ i >= clamp.q => float_gte(val, clamp.b)

(***************************************************************************)
(* Chord thinning, src/no_chords.py.                                       *)
(***************************************************************************)
\* no_chords.py and tempo_integrator.py read the pitch of a note as `key`,
\* an attribute of the Note they were written against; the Note classes in
\* the source tree name the pitch `note`.
key(ns) == ns.note

\* Lines 19-21.
ci(first, other) == IsClose(first.beat, other.beat) /\ first.channel = other.channel

\* Lines 9-16, one iteration of the outer loop: the item joins the first
\* group whose first element equals it, or starts a new group.
AddToGroups(groups, item) ==
    LET hits == {g \in 1..Len(groups) : ci(groups[g][1], item)}
    IN  IF hits = {} THEN Append(groups, <<item>>)
        ELSE LET g == CHOOSE h \in hits : \A o \in hits : h <= o
             IN  [groups EXCEPT ![g] = Append(@, item)]

\* Lines 7-16.
RECURSIVE group_by_custom_equals(_)
group_by_custom_equals(lst) ==
    IF lst = <<>> THEN <<>>
    ELSE AddToGroups(group_by_custom_equals(SubSeq(lst, 1, Len(lst) - 1)), lst[Len(lst)])

\* A variant of line 31 that keeps the lowest note of each group.
Lowest(note_set) ==
    LET best == CHOOSE k \in 1..Len(note_set) :
                    \A o \in 1..Len(note_set) :
                        \/ key(note_set[o]) > key(note_set[k])
                        \/ (key(note_set[o]) = key(note_set[k]) /\ o >= k)
    IN  note_set[best]

\* Line 31: max(note_set, key=lambda ns: ns.key), the first of the highest.
Highest(note_set) ==
    LET best == CHOOSE k \in 1..Len(note_set) :
                    \A o \in 1..Len(note_set) :
                        \/ key(note_set[o]) < key(note_set[k])
                        \/ (key(note_set[o]) = key(note_set[k]) /\ o >= k)
    IN  note_set[best]

\* Lines 27-33 for one track: the new note list.
ThinTrack(track_notes) ==
    LET sets == group_by_custom_equals(track_notes)
    IN  [g \in 1..Len(sets) |-> Highest(sets[g])]

\* Lines 24-35.
no_chords(rep) ==
    [rep EXCEPT !.tracks = [t \in DOMAIN rep.tracks |->
                               [rep.tracks[t] EXCEPT !.notes = ThinTrack(rep.tracks[t].notes)]]]

(***************************************************************************)
(* SpecChords: a one-track representation whose notes lie on the beat      *)
(* grid, thinned once.                                                     *)
(***************************************************************************)
MaxChordNotes == 3

ChordNotes ==
    {Note(c, k, v, Beats(b), Beats(1)) : c \in {0, 1}, k \in {60, 64}, v \in {90, 100}, b \in {0, 1}}

ChordNoteLists == UNION {[1..n -> ChordNotes] : n \in 0..MaxChordNotes}

ChordRepresentation(ns) ==
    MidiRepresentation(<<Track(ns, "a")>>, EmptyDict, <<>>, <<>>)

InitChords ==
    /\ pc = "chords"
    /\ error = "none"
    /\ chords \in {[input |-> ChordRepresentation(ns), output |-> <<>>] : ns \in ChordNoteLists}
    /\ RoundTripUnused
    /\ swing = Unused /\ clamp = Unused /\ tempo = Unused /\ barsys = Unused

NoChords ==
    /\ pc = "chords"
    /\ chords' = [chords EXCEPT !.output = no_chords(chords.input)]
    /\ pc' = "thinned"
    /\ UNCHANGED <<error, roundTripVars, swing, clamp, tempo, barsys>>

NextChords == NoChords

SpecChords == InitChords /\ [][NextChords]_vars

SameBeatAndChannel(n, m) == n.beat = m.beat /\ n.channel = m.channel

SeqToBag(s) == [x \in {s[k] : k \in DOMAIN s} |-> Cardinality({k \in DOMAIN s : s[k] = x})]

\* The input notes of track t that share beat and channel with input note k.
ChordOf(t, k) ==
    LET ns == chords.input.tracks[t].notes
    IN  {j \in DOMAIN ns : SameBeatAndChannel(ns[j], ns[k])}

spb_raises(bpm) == bpm.n = 0

\* x * spb(tempo), lines 7-8: x * 60.0 / tempo, for tempo # 0.
MulSpb(x, bpm) ==
    LET g == Gcd(60 * bpm.d, Abs(bpm.n))
        y == (x * ((60 * bpm.d) \div g)) \div (Abs(bpm.n) \div g)
    IN  IF bpm.n < 0 THEN -y ELSE y

\* math.inf of line 54, above every beat of the model.
Infinity == 50 * BeatScale

\* The 0.00001 of line 34.
OverlapGap == BeatScale \div 100000

\* Lines 11-19, positions counted from 1; 0 stands for -1.
arg_first(start, list, cur_note) ==
    LET hits == {i \in start..Len(list) :
                    key(list[i]) = key(cur_note) /\ list[i].channel = cur_note.channel}
    IN  IF hits = {} THEN 0 ELSE CHOOSE i \in hits : \A o \in hits : i <= o

\* A variant of lines 33-35 that lets the note last until the next one starts.
TrimmedUpToNext(note, next_note) ==
    [note EXCEPT !.duration = Min2(note.duration, next_note.beat - note.beat)]

\* Lines 33-35.
Trimmed(note, next_note) ==
    [note EXCEPT !.duration = Min2(note.duration, next_note.beat - note.beat - OverlapGap)]

\* Lines 22-41.
prevent_overlapping_notes(notes_argument) ==
    LET sorted == SortByBeat(notes_argument)
    IN  [i \in 1..Len(sorted) |->
            IF i < Len(sorted)
            THEN LET next_note_idx == arg_first(i + 1, sorted, sorted[i])
                 IN  IF next_note_idx # 0
                     THEN Trimmed(sorted[i], sorted[next_note_idx])
                     ELSE sorted[i]
            ELSE sorted[i]]

\* Lines 59-66: the while loop of one iteration of the for loop.
RECURSIVE ConvertNotesBefore(_, _, _)
ConvertNotesBefore(st, sorted, tempo_change) ==
    IF st.error # "none" THEN st
    ELSE IF st.j <= Len(sorted) /\ sorted[st.j].beat < tempo_change.beat
    THEN IF spb_raises(st.previous_bpm) THEN [st EXCEPT !.error = "ZeroDivisionError"]
         ELSE
         LET n == sorted[st.j]
             converted ==
                 [n EXCEPT !.beat = st.offset_this_many_seconds
                                      + MulSpb(n.beat - st.count_from_this_beat, st.previous_bpm),
                           !.duration = MulSpb(n.duration, st.previous_bpm)]
         IN  ConvertNotesBefore([st EXCEPT !.export_notes = Append(@, converted), !.j = @ + 1],
                                sorted, tempo_change)
    ELSE st

\* Lines 56-76: the for loop from position i (counted from 1) on.
RECURSIVE AugmentLoop(_, _, _, _)
AugmentLoop(tempo_changes, sorted, i, st) ==
    IF i > Len(tempo_changes) THEN st
    ELSE LET tempo_change == tempo_changes[i]
             s1 == ConvertNotesBefore(st, sorted, tempo_change)
         IN  IF s1.error # "none" \/ s1.j = Len(sorted) + 1 THEN s1
             ELSE IF i >= 2 /\ spb_raises(tempo_changes[i - 1].new_bpm)
             THEN [s1 EXCEPT !.error = "ZeroDivisionError"]
             ELSE AugmentLoop(tempo_changes, sorted, i + 1,
                      [s1 EXCEPT
                          !.count_from_this_beat = tempo_change.beat,
                          !.offset_this_many_seconds =
                              IF i >= 2
                              THEN @ + MulSpb(tempo_change.beat - tempo_changes[i - 1].beat,
                                              tempo_changes[i - 1].new_bpm)
                              ELSE @,
                          !.previous_bpm = tempo_change.new_bpm])

\* Lines 44-77.
augment_note_list(tempo_change_argument, notes_argument) ==
    LET sorted_changes == SortByBeat(tempo_change_argument)
        with_default   == IF sorted_changes = <<>>
                          THEN <<TempoChange(0, Bpm(120, 1))>>
                          ELSE sorted_changes
        tempo_changes  == Append(with_default, TempoChange(Infinity, Bpm(120, 1)))
        start == [j |-> 1, export_notes |-> <<>>, count_from_this_beat |-> 0,
                  offset_this_many_seconds |-> 0, previous_bpm |-> Bpm(120, 1),
                  error |-> "none"]
        done  == AugmentLoop(tempo_changes, SortByBeat(notes_argument), 1, start)
    IN  IF done.error # "none" THEN [error |-> done.error, value |-> <<>>]
        ELSE [error |-> "none", value |-> prevent_overlapping_notes(done.export_notes)]

\* Lines 89-99: the for loop from position i on; `at` is the position of
\* the tempo change the loop variable is left on.
RECURSIVE NaiveLoop(_, _, _, _)
NaiveLoop(tempo_changes, beat, i, st) ==
    IF i > Len(tempo_changes) THEN [st EXCEPT !.at = Len(tempo_changes)]
    ELSE IF beat < tempo_changes[i].beat THEN [st EXCEPT !.at = i]
    ELSE NaiveLoop(tempo_changes, beat, i + 1,
             [st EXCEPT
                 !.count_from_this_beat = tempo_changes[i].beat,
                 !.offset_this_many_seconds =
                     IF i >= 2
                     THEN @ + MulSpb(tempo_changes[i].beat - tempo_changes[i - 1].beat,
                                     tempo_changes[i - 1].new_bpm)
                     ELSE @])

\* Lines 80-101.
naive_tempo_change_to_seconds(tempo_change_argument, beat) ==
    LET sorted_changes == SortByBeat(tempo_change_argument)
        tempo_changes  == IF sorted_changes = <<>>
                          THEN <<TempoChange(0, Bpm(120, 1))>>
                          ELSE sorted_changes
        st == NaiveLoop(tempo_changes, beat, 1,
                        [count_from_this_beat |-> 0, offset_this_many_seconds |-> 0, at |-> 0])
    IN  st.offset_this_many_seconds
            + MulSpb(beat - st.count_from_this_beat, tempo_changes[st.at].new_bpm)

\* Lines 104-111.
tempo_integrator(m) ==
    LET new_notes == [t \in DOMAIN m.tracks |->
                         augment_note_list(m.bpm_changes, m.tracks[t].notes)]
    IN  IF \E t \in DOMAIN m.tracks : new_notes[t].error # "none"
        THEN [error |-> "ZeroDivisionError", value |-> <<>>]
        ELSE [error |-> "none",
              value |-> [m EXCEPT
                            !.tracks = [t \in DOMAIN m.tracks |->
                                           [m.tracks[t] EXCEPT !.notes = new_notes[t].value]],
                            !.bpm_changes = <<TempoChange(0, Bpm(60, 1))>>]]

(***************************************************************************)
(* SpecTempo: a one-track representation with tempo changes, integrated    *)
(* once.                                                                   *)
(***************************************************************************)
MaxTempoChanges == 2

MaxTempoNotes == 2

TempoChangeChoices == {TempoChange(Beats(b), Bpm(t, 1)) : b \in {0, 2}, t \in {60, 120}}

TempoNoteChoices == {Note(0, k, 100, Beats(b), Beats(d)) : k \in {60, 64}, b \in {0, 1, 3}, d \in {1, 3}}

TempoChangeLists == UNION {[1..n -> TempoChangeChoices] : n \in 0..MaxTempoChanges}

TempoNoteLists == UNION {[1..n -> TempoNoteChoices] : n \in 0..MaxTempoNotes}

InitTempo ==
    /\ pc = "tempo"
    /\ error = "none"
    /\ tempo \in {[input |-> MidiRepresentation(<<Track(ns, "a")>>, EmptyDict, tcs, <<>>),
                   output |-> <<>>] : ns \in TempoNoteLists, tcs \in TempoChangeLists}
    /\ RoundTripUnused
    /\ swing = Unused /\ clamp = Unused /\ chords = Unused /\ barsys = Unused

TempoIntegrator ==
    /\ pc = "tempo"
    /\ LET r == tempo_integrator(tempo.input)
       IN  /\ tempo' = [tempo EXCEPT !.output = r.value]
           /\ error' = r.error
           /\ pc' = IF r.error = "none" THEN "integrated" ELSE "aborted"
    /\ UNCHANGED <<roundTripVars, swing, clamp, chords, barsys>>

NextTempo == TempoIntegrator

SpecTempo == InitTempo /\ [][NextTempo]_vars

SameKey(n, m) == key(n) = key(m) /\ n.channel = m.channel

IntegratedFrom(t, k) ==
    LET n    == tempo.input.tracks[t].notes[k]
        outs == tempo.output.tracks[t].notes
    IN  {o \in DOMAIN outs : SameKey(outs[o], n) /\ outs[o].velocity = n.velocity}

\* C5: tempo integration preserves absolute duration: the output duration
\* of every note is naive_tempo_change_to_seconds(tc, beat + duration)
\* - naive_tempo_change_to_seconds(tc, beat) of the input note.
C5_DurationIsElapsedSeconds ==
    pc = "integrated" =>
        \A t \in DOMAIN tempo.input.tracks :
            \A k \in DOMAIN tempo.input.tracks[t].notes :
                LET n  == tempo.input.tracks[t].notes[k]
                    tc == tempo.input.bpm_changes
                IN  \E o \in IntegratedFrom(t, k) :
                        tempo.output.tracks[t].notes[o].duration
                            = naive_tempo_change_to_seconds(tc, n.beat + n.duration)
                                - naive_tempo_change_to_seconds(tc, n.beat)

\* C6: the beat that augment_note_list assigns to a note with onset b is
\* naive_tempo_change_to_seconds(tc, b).
C6_NaiveAgreesAtOnsets ==
    pc = "integrated" =>
        \A t \in DOMAIN tempo.input.tracks :
            \A k \in DOMAIN tempo.input.tracks[t].notes :
                LET n  == tempo.input.tracks[t].notes[k]
                    tc == tempo.input.bpm_changes
                IN  \E o \in IntegratedFrom(t, k) :
                        tempo.output.tracks[t].notes[o].beat
                            = naive_tempo_change_to_seconds(tc, n.beat)

\* The seconds from beat `from` to `beat` when the tempo is bpm from `from`
\* up to the tempo change i of the sorted list and follows the list after it.
RECURSIVE ElapsedFrom(_, _, _, _, _)
ElapsedFrom(tempo_changes, i, from, bpm, beat) ==
    IF i > Len(tempo_changes) \/ beat < tempo_changes[i].beat
    THEN MulSpb(beat - from, bpm)
    ELSE MulSpb(tempo_changes[i].beat - from, bpm)
             + ElapsedFrom(tempo_changes, i + 1, tempo_changes[i].beat,
                           tempo_changes[i].new_bpm, beat)

\* The real time of a beat under the piecewise constant tempo of the tempo
\* changes, 120 BPM before the first one.
ElapsedSeconds(tempo_change_argument, beat) ==
    ElapsedFrom(SortByBeat(tempo_change_argument), 1, 0, Bpm(DEFAULT_BPM, 1), beat)

\* C23: every note is converted to the real time elapsed from beat 0 to its
\* onset under the piecewise constant tempo (120 BPM before the first tempo
\* change), and so the conversion keeps the onset order of the notes.
C23_OnsetIsElapsedTime ==
    pc = "integrated" =>
        \A t \in DOMAIN tempo.input.tracks :
            LET ins  == tempo.input.tracks[t].notes
                outs == tempo.output.tracks[t].notes
                tc   == tempo.input.bpm_changes
            IN  /\ \A k \in DOMAIN ins :
                       \E o \in IntegratedFrom(t, k) :
                           outs[o].beat = ElapsedSeconds(tc, ins[k].beat)
                /\ \A k1, k2 \in DOMAIN ins :
                       (~SameKey(ins[k1], ins[k2]) /\ ins[k1].beat <= ins[k2].beat) =>
                           \A o1 \in IntegratedFrom(t, k1), o2 \in IntegratedFrom(t, k2) :
                               outs[o1].beat <= outs[o2].beat

IntegrationKeepsNoteCount ==
    pc = "integrated" =>
        \A t \in DOMAIN tempo.input.tracks :
            Len(tempo.output.tracks[t].notes) = Len(tempo.input.tracks[t].notes)

(***************************************************************************)
(* SpecInvalidTempo: a one-track representation whose tempo changes may    *)
(* carry a zero or negative new_bpm, handed either to tempo_integrator or  *)
(* to representation_to_midi_file.                                         *)
(***************************************************************************)
MaxInvalidTempoNotes == 1

InvalidTempoChoices == {TempoChange(Beats(b), Bpm(t, 1)) : b \in {0, 2}, t \in {-60, 0, 60}}

InvalidTempoNoteChoices == {Note(0, 60, 100, Beats(b), Beats(1)) : b \in {0, 1, 3}}

InvalidTempoChangeLists == UNION {[1..n -> InvalidTempoChoices] : n \in 0..MaxTempoChanges}

InvalidTempoNoteLists == UNION {[1..n -> InvalidTempoNoteChoices] : n \in 0..MaxInvalidTempoNotes}

InitInvalidTempo ==
    /\ pc = "tempo"
    /\ error = "none"
    /\ tempo \in {[input |-> MidiRepresentation(<<Track(ns, "a")>>, EmptyDict, tcs, <<>>),
                   output |-> <<>>] : ns \in InvalidTempoNoteLists, tcs \in InvalidTempoChangeLists}
    /\ RoundTripUnused
    /\ swing = Unused /\ clamp = Unused /\ chords = Unused /\ barsys = Unused

\* A whole number of beats as the float the exporter computes with.
FloatBeats(x) == (x \div BeatScale) * FUnit

FloatBeatsNote(n) == [n EXCEPT !.beat = FloatBeats(n.beat), !.duration = FloatBeats(n.duration)]

FloatBeatsRepresentation(m) ==
    [m EXCEPT
        !.tracks = [t \in DOMAIN m.tracks |->
                       [m.tracks[t] EXCEPT
                           !.notes = [k \in DOMAIN m.tracks[t].notes |->
                                         FloatBeatsNote(m.tracks[t].notes[k])]]],
        !.bpm_changes = [k \in DOMAIN m.bpm_changes |->
                            [m.bpm_changes[k] EXCEPT !.beat = FloatBeats(m.bpm_changes[k].beat)]]]

\* representation_to_midi_file on the same representation.
ExportTempo ==
    /\ pc = "tempo"
    /\ \E r \in {representation_to_midi_file(FloatBeatsRepresentation(tempo.input))} :
           /\ exported_file' = r.value
           /\ error' = r.error
           /\ pc' = IF r.error = "none" THEN "tempo_exported" ELSE "aborted"
    /\ UNCHANGED <<midi_file, notes, note_objs, note_look_behind, accumulated_time,
                   tracks, midi_representation, representation_2, otherVars>>

NextInvalidTempo ==
    \/ TempoIntegrator
    \/ ExportTempo

SpecInvalidTempo == InitInvalidTempo /\ [][NextInvalidTempo]_vars

\* Every tempo change is invalid, one of them is at beat 0 and the track has
\* a note: whichever tempo a note is converted at, it is zero or negative.
OnlyNonPositiveTempos(m) ==
    /\ \A k \in DOMAIN m.bpm_changes : m.bpm_changes[k].new_bpm.n <= 0
    /\ \E k \in DOMAIN m.bpm_changes : m.bpm_changes[k].beat = 0
    /\ \E t \in DOMAIN m.tracks : m.tracks[t].notes # <<>>

\* C11: when the tempo changes of a representation with notes all carry a
\* zero or negative new_bpm, tempo integration and the export both end in an
\* error outcome: neither returns note timings or a file with a set-tempo
\* event.
C11_InvalidTempoFailsFast ==
    (pc # "tempo" /\ OnlyNonPositiveTempos(tempo.input))
        => (pc = "aborted" /\ error # "none")

(***************************************************************************)
(* Bars, src/midi_processor/midi_processor.py.  Beats are exact multiples  *)
(* of 1 / BeatScale; the signatures drawn below scale them exactly.        *)
(***************************************************************************)
\* x * num / den, reduced first.
ScaleBy(x, num, den) ==
    LET g == Gcd(num, den)
    IN  (x * (num \div g)) \div (den \div g)

\* Lines 80-83.
get_absolute_bar_length(time_sig) ==
    ScaleBy(BeatScale, time_sig.numerator * 4, time_sig.denominator)

\* x * get_absolute_tempo_squish_factor(), lines 85-90.
Squish(x, time_sig) == ScaleBy(x, time_sig.denominator, 4)

\* x * (1 / get_absolute_tempo_squish_factor()), line 221.
Unsquish(x, time_sig) == ScaleBy(x, 4, time_sig.denominator)

\* Python's round(x) of a beat x >= 0, as a beat: halves go to the even side.
RoundBeat(x) ==
    LET q == x \div BeatScale
        r == x % BeatScale
    IN  IF 2 * r < BeatScale THEN Beats(q)
        ELSE IF 2 * r > BeatScale THEN Beats(q + 1)
        ELSE IF q % 2 = 0 THEN Beats(q) ELSE Beats(q + 1)

\* math.ceil(x) of a beat x, as a number of beats.
CeilBeats(x) == IF x % BeatScale = 0 THEN x \div BeatScale ELSE (x \div BeatScale) + 1

\* Lines 134-142.
slice_with_time_signature(track, b, e, time_sig) ==
    LET InBar(n) == sandwiched(b, n.beat, e)
        kept == SelectSeq(track.notes, InBar)
    IN  [track EXCEPT !.notes =
            [k \in 1..Len(kept) |->
                [kept[k] EXCEPT !.beat = Squish(Max2(0, kept[k].beat - b), time_sig)]]]

\* Lines 274-280.
get_song_length(rep) ==
    LET NoteEnds(notes_) == {CeilBeats(notes_[k].beat + notes_[k].duration) : k \in DOMAIN notes_}
        all == UNION {NoteEnds(rep.tracks[i].notes) : i \in DOMAIN rep.tracks} \cup {0}
    IN  CHOOSE h \in all : \A o \in all : o <= h

generate_4_4_time_sig == TimeSignature(4, 4, 0)

Bar(tracks_, time_signature, tempo_changes, starting_tempo) ==
    [tracks |-> tracks_, time_signature |-> time_signature,
     tempo_changes |-> tempo_changes, starting_tempo |-> starting_tempo]

\* Lines 309-312: the inner while loop; positions counted from 1.
RECURSIVE NudgeTimeSigIndex(_, _, _)
NudgeTimeSigIndex(time_sig_changes, time_sig_index, b) ==
    IF /\ time_sig_index < Len(time_sig_changes)
       /\ float_gte(b, RoundBeat(time_sig_changes[time_sig_index + 1].beat))
    THEN NudgeTimeSigIndex(time_sig_changes, time_sig_index + 1, b)
    ELSE time_sig_index

\* Lines 317-323: the tempo changes of the bar [b, e).
BarTempoChanges(local_tempo_changes, b, e, time_sig) ==
    LET tempos_as_beats == [k \in DOMAIN local_tempo_changes |-> local_tempo_changes[k].beat]
        pq == clamp_sorted(tempos_as_beats, b, e)
    IN  [k \in 1..(pq[2] - pq[1]) |->
            [local_tempo_changes[pq[1] + k] EXCEPT
                !.beat = Squish(Max2(0, local_tempo_changes[pq[1] + k].beat - b), time_sig)]]

\* Lines 215-240: the notes of track i, bar after bar.
RECURSIVE AggregateNotes(_, _, _, _)
AggregateNotes(bars, k, i, last_absolute_beat) ==
    IF k > Len(bars) THEN <<>>
    ELSE LET bar    == bars[k]
             track2 == [n \in DOMAIN bar.tracks[i].notes |->
                           [bar.tracks[i].notes[n] EXCEPT
                               !.beat = Unsquish(@, bar.time_signature) + last_absolute_beat]]
         IN  (IF i \in DOMAIN bar.tracks THEN track2 ELSE <<>>)
                 \o AggregateNotes(bars, k + 1, i,
                        last_absolute_beat + get_absolute_bar_length(bar.time_signature))

\* Lines 215-240.
to_regular_midi_representation(bmr) ==
    LET indices == UNION {DOMAIN bmr.bars[k].tracks : k \in DOMAIN bmr.bars}
        LastNamed(i) == CHOOSE k \in DOMAIN bmr.bars :
                            /\ i \in DOMAIN bmr.bars[k].tracks
                            /\ \A o \in DOMAIN bmr.bars : i \in DOMAIN bmr.bars[o].tracks => o <= k
    IN  MidiRepresentation(
            [i \in indices |-> Track(AggregateNotes(bmr.bars, 1, i, 0),
                                     bmr.bars[LastNamed(i)].tracks[i].track_name)],
            bmr.channel_instrument_map, bmr.bpm_changes, bmr.time_signature_changes)

\* Lines 243-249.
generate_bar_midi_representation(mr, bars) ==
    [bars |-> bars, channel_instrument_map |-> mr.channel_instrument_map,
     bpm_changes |-> mr.bpm_changes, time_signature_changes |-> mr.time_signature_changes]

(***************************************************************************)
(* SpecBars: generate_bars, one bar per step, then the reassembly.         *)
(***************************************************************************)
MaxBarNotes == 2

HalfBeats(n) == n * (BeatScale \div 2)

BarNoteChoices == {Note(0, 60, 100, HalfBeats(b), Beats(1)) : b \in {0, 3, 4, 9}}

BarNoteLists == UNION {[1..n -> BarNoteChoices] : n \in 0..MaxBarNotes}

BarTrackDicts ==
    {<<Track(ns, "a")>> : ns \in BarNoteLists}
        \cup {<<Track(ns, "a"), Track(more, "b")>> :
                 ns \in BarNoteLists, more \in {<<>>, <<Note(1, 64, 100, Beats(2), Beats(1))>>}}

BarTempoLists ==
    {<<>>,
     <<TempoChange(0, Bpm(120, 1))>>,
     <<TempoChange(HalfBeats(5), Bpm(90, 1)), TempoChange(0, Bpm(60, 1))>>}

BarTimeSignatureLists ==
    {<<>>,
     <<TimeSignature(3, 4, 0)>>,
     <<TimeSignature(6, 8, 0)>>,
     <<TimeSignature(2, 4, 0), TimeSignature(4, 4, Beats(2))>>,
     <<TimeSignature(4, 4, 0), TimeSignature(3, 8, Beats(4))>>,
     <<TimeSignature(4, 4, 0), TimeSignature(3, 4, Beats(2))>>,
     <<TimeSignature(3, 4, Beats(4))>>}

InitBars ==
    /\ pc = "bars_start"
    /\ error = "none"
    /\ barsys \in {[mr |-> MidiRepresentation(trs, EmptyDict, tcs, tss),
                    local_tempo_changes |-> <<>>, time_sig_changes |-> <<>>,
                    song_length_safe |-> 0, bars |-> <<>>, b |-> 0, time_sig_index |-> 1,
                    current_tempo |-> Bpm(120, 1), bmr |-> <<>>, result |-> <<>>] :
                   trs \in BarTrackDicts, tcs \in BarTempoLists, tss \in BarTimeSignatureLists}
    /\ RoundTripUnused
    /\ swing = Unused /\ clamp = Unused /\ chords = Unused /\ tempo = Unused

\* Lines 294-305, when line 305 raises: it reads local_tempo_changes[0]
\* exactly when the list is empty.
StartGenerateBarsFails ==
    /\ pc = "bars_start"
    /\ barsys.mr.bpm_changes = <<>>
    /\ pc' = "aborted"
    /\ error' = "IndexError"
    /\ UNCHANGED <<roundTripVars, otherVars>>

\* Lines 294-305.
StartGenerateBars ==
    /\ pc = "bars_start"
    /\ barsys.mr.bpm_changes # <<>>
    /\ barsys' = [barsys EXCEPT
           !.local_tempo_changes = SortByBeat(barsys.mr.bpm_changes),
           !.time_sig_changes =
               IF barsys.mr.time_signature_changes = <<>>
               THEN <<generate_4_4_time_sig>>
               ELSE SortByBeat(barsys.mr.time_signature_changes),
           !.bars = <<>>,
           !.song_length_safe = get_song_length(barsys.mr) + 1,
           !.time_sig_index = 1,
           !.b = 0,
           !.current_tempo = Bpm(120, 1)]
    /\ pc' = "bars_loop"
    /\ UNCHANGED <<error, roundTripVars, swing, clamp, chords, tempo>>

\* Lines 307-330: one iteration of the outer while loop.
GenerateBar ==
    /\ pc = "bars_loop"
    /\ float_lt(barsys.b, Beats(barsys.song_length_safe))
    /\ LET b == barsys.b
           time_sig_index == NudgeTimeSigIndex(barsys.time_sig_changes, barsys.time_sig_index, b)
           time_sig == barsys.time_sig_changes[time_sig_index]
           e == b + get_absolute_bar_length(time_sig)
           new_tracks == [i \in DOMAIN barsys.mr.tracks |->
                             slice_with_time_signature(barsys.mr.tracks[i], b, e, time_sig)]
           tempo_changes == BarTempoChanges(barsys.local_tempo_changes, b, e, time_sig)
           new_bar == Bar(new_tracks, time_sig, tempo_changes, barsys.current_tempo)
       IN  barsys' = [barsys EXCEPT
               !.time_sig_index = time_sig_index,
               !.bars = Append(@, new_bar),
               !.current_tempo = IF tempo_changes # <<>>
                                 THEN tempo_changes[Len(tempo_changes)].new_bpm
                                 ELSE @,
               !.b = e]
    /\ UNCHANGED <<pc, error, roundTripVars, swing, clamp, chords, tempo>>

\* Lines 307 and 331 with lines 243-249: the loop ends and the bars are
\* wrapped into a BarMidiRepresentation.
FinishGenerateBars ==
    /\ pc = "bars_loop"
    /\ ~float_lt(barsys.b, Beats(barsys.song_length_safe))
    /\ barsys' = [barsys EXCEPT !.bmr = generate_bar_midi_representation(barsys.mr, barsys.bars)]
    /\ pc' = "bars_done"
    /\ UNCHANGED <<error, roundTripVars, swing, clamp, chords, tempo>>

\* Lines 215-240.
Reassemble ==
    /\ pc = "bars_done"
    /\ barsys' = [barsys EXCEPT !.result = to_regular_midi_representation(barsys.bmr)]
    /\ pc' = "reassembled"
    /\ UNCHANGED <<error, roundTripVars, swing, clamp, chords, tempo>>

NextBars ==
    \/ StartGenerateBarsFails
    \/ StartGenerateBars
    \/ GenerateBar
    \/ FinishGenerateBars
    \/ Reassemble

SpecBars == InitBars /\ [][NextBars]_vars

\* C2: the reassembly of the bars of generate_bars(mr) has, for every track
\* index of mr, the same multiset of notes as mr has on that track.
C2_BarRoundTrip ==
    pc \in {"reassembled", "aborted"} =>
        /\ pc = "reassembled"
        /\ \A i \in DOMAIN barsys.mr.tracks :
               /\ i \in DOMAIN barsys.result.tracks
               /\ SeqToBag(barsys.result.tracks[i].notes) = SeqToBag(barsys.mr.tracks[i].notes)

\* The same, for the runs in which generate_bars returns.
BarRoundTripWhenBarsReturn ==
    pc = "reassembled" =>
        \A i \in DOMAIN barsys.mr.tracks :
            /\ i \in DOMAIN barsys.result.tracks
            /\ SeqToBag(barsys.result.tracks[i].notes) = SeqToBag(barsys.mr.tracks[i].notes)

\* The beat at which bar k begins: the bars before it laid end to end.
RECURSIVE BarStart(_, _)
BarStart(bars, k) ==
    IF k = 1 THEN 0
    ELSE BarStart(bars, k - 1) + get_absolute_bar_length(bars[k - 1].time_signature)

\* The time signatures of the representation in beat order; line 297 puts
\* 4/4 at beat 0 in the place of an empty list.
SignaturesInBeatOrder ==
    IF barsys.mr.time_signature_changes = <<>> THEN <<generate_4_4_time_sig>>
    ELSE SortByBeat(barsys.mr.time_signature_changes)

\* The signatures declared, after rounding, at or before beat b.
DeclaredUpTo(sigs, b) == {i \in DOMAIN sigs : RoundBeat(sigs[i].beat) <= b}

\* C21: the time signature of every bar is the last signature in beat order
\* whose beat, rounded to the nearest integer, is at or before the beat at
\* which the bar begins.
C21_GoverningTimeSignature ==
    pc \in {"bars_loop", "bars_done", "reassembled"} =>
        \A k \in DOMAIN barsys.bars :
            LET sigs == SignaturesInBeatOrder
                upto == DeclaredUpTo(sigs, BarStart(barsys.bars, k))
            IN  \E i \in upto :
                    /\ \A j \in upto : j <= i
                    /\ barsys.bars[k].time_signature = sigs[i]

\* The same for the bars that begin at or after the first signature.
GoverningTimeSignatureOnceDeclared ==
    pc \in {"bars_loop", "bars_done", "reassembled"} =>
        \A k \in DOMAIN barsys.bars :
            LET sigs == SignaturesInBeatOrder
                upto == DeclaredUpTo(sigs, BarStart(barsys.bars, k))
            IN  upto # {} =>
                    \E i \in upto :
                        /\ \A j \in upto : j <= i
                        /\ barsys.bars[k].time_signature = sigs[i]

\* The notes of a track that begin in [from, to), as a bar holds them: the
\* beat counted from the start of the bar in the bar's own beat unit.
NotesBeginningIn(track_notes, from, to, time_sig) ==
    LET at == SelectSeq([k \in DOMAIN track_notes |-> k],
                        LAMBDA k : from <= track_notes[k].beat /\ track_notes[k].beat < to)
    IN  [k \in DOMAIN at |->
            [track_notes[at[k]] EXCEPT
                !.beat = Squish(track_notes[at[k]].beat - from, time_sig)]]

\* The bars built so far lie end to end from beat 0 up to b, and each holds
\* exactly the notes that begin in it.
BarsAreContiguous ==
    /\ barsys.b = BarStart(barsys.bars, Len(barsys.bars) + 1)
    /\ \A k \in DOMAIN barsys.bars :
           /\ BarStart(barsys.bars, k) < BarStart(barsys.bars, k + 1)
           /\ DOMAIN barsys.bars[k].tracks = DOMAIN barsys.mr.tracks
           /\ \A i \in DOMAIN barsys.mr.tracks :
                  SeqToBag(barsys.bars[k].tracks[i].notes)
                      = SeqToBag(NotesBeginningIn(barsys.mr.tracks[i].notes,
                                                  BarStart(barsys.bars, k),
                                                  BarStart(barsys.bars, k + 1),
                                                  barsys.bars[k].time_signature))

\* The returned bars reach song_length + 1, so every note begins in a bar.
BarsCoverTheSong ==
    /\ barsys.b >= Beats(get_song_length(barsys.mr) + 1)
    /\ \A i \in DOMAIN barsys.mr.tracks :
           \A n \in DOMAIN barsys.mr.tracks[i].notes :
               Cardinality({k \in DOMAIN barsys.bars :
                               /\ BarStart(barsys.bars, k) <= barsys.mr.tracks[i].notes[n].beat
                               /\ barsys.mr.tracks[i].notes[n].beat < BarStart(barsys.bars, k + 1)})
                   = 1

\* C22: generate_bars ends by returning its bars (time signatures with
\* numerator >= 1 and denominator >= 1); the bars are contiguous from beat
\* 0, the last one ends at or after song_length + 1, and every note with
\* beat >= 0 falls into exactly one bar.
C22_BarsTileTheSong ==
    /\ pc # "aborted"
    /\ pc \in {"bars_loop", "bars_done", "reassembled"} => BarsAreContiguous
    /\ pc \in {"bars_done", "reassembled"} => BarsCoverTheSong

\* The same for the runs in which generate_bars returns.
BarsTileTheSongWhenBarsReturn ==
    /\ pc \in {"bars_loop", "bars_done", "reassembled"} => BarsAreContiguous
    /\ pc \in {"bars_done", "reassembled"} => BarsCoverTheSong

\* The bars before bar k that hold a tempo change.
EarlierBarsWithTempo(bars, k) == {j \in 1..(k - 1) : bars[j].tempo_changes # <<>>}

\* The tempo in effect where bar k begins: that of the last tempo change of
\* the nearest earlier bar that holds one, 120 if there is none.
TempoCarriedInto(bars, k) ==
    IF EarlierBarsWithTempo(bars, k) = {} THEN Bpm(DEFAULT_BPM, 1)
    ELSE LET j == CHOOSE x \in EarlierBarsWithTempo(bars, k) :
                      \A o \in EarlierBarsWithTempo(bars, k) : o <= x
         IN  bars[j].tempo_changes[Len(bars[j].tempo_changes)].new_bpm

\* C20: generate_bars completes for a representation without tempo changes,
\* and then every bar starts at 120; in general every bar's starting_tempo
\* is the new_bpm of the last tempo change placed in an earlier bar, or 120
\* when no earlier bar holds a tempo change.
C20_BarStartingTempo ==
    /\ (barsys.mr.bpm_changes = <<>> /\ pc # "bars_start") => pc # "aborted"
    /\ pc \in {"bars_loop", "bars_done", "reassembled"} =>
           \A k \in DOMAIN barsys.bars :
               barsys.bars[k].starting_tempo = TempoCarriedInto(barsys.bars, k)

\* The second part of C20 alone, for the bars the code does produce.
BarStartingTempoWhenBarsReturn ==
    pc \in {"bars_loop", "bars_done", "reassembled"} =>
        \A k \in DOMAIN barsys.bars :
            barsys.bars[k].starting_tempo = TempoCarriedInto(barsys.bars, k)

(***************************************************************************)
(* Properties of the exported file (SpecRoundTrip, after Export).          *)
(***************************************************************************)
\* The track indices of a representation in increasing order (lines 407-408).
RECURSIVE SortedKeys(_)
SortedKeys(S) ==
    IF S = {} THEN <<>>
    ELSE LET i == CHOOSE j \in S : \A o \in S : j <= o
         IN  <<i>> \o SortedKeys(S \ {i})

\* The MidiTrack written for the n-th music track; track 1 of the file is
\* the tempo track.
ExportedTrack(n) == exported_file.tracks[n + 1]

\* What a note message says, with the absolute tick its delta times add up to.
Signature(type, note, tick) ==
    [type |-> type, channel |-> note.channel, note |-> note.note,
     velocity |-> note.velocity, tick |-> tick]

IsNoteMessage(sig) == sig.type \in {"note_on", "note_off"}

NoteSignatures(track) ==
    SelectSeq([p \in DOMAIN track |-> Signature(track[p].type, track[p], TicksUpTo(track, p))],
              IsNoteMessage)

\* trunc(event_time * 96)
TruncTicks(event_time) == FInt(FMulInt(event_time, DEFAULT_TICKS_PER_BEAT))

OnSignature(note) == Signature("note_on", note, TruncTicks(note.beat))

OffSignature(note) == Signature("note_off", note, TruncTicks(FAdd(note.beat, note.duration)))

ExpectedSignatures(ns) ==
    [k \in 1..(2 * Len(ns)) |->
        IF k <= Len(ns) THEN OnSignature(ns[k]) ELSE OffSignature(ns[k - Len(ns)])]

\* C18: in the exported track of every music track (notes with beat >= 0
\* and duration >= 0) the note messages are one note-on and one note-off
\* per note, the delta times up to each message add up to
\* trunc(event_time * 96), no delta is negative, and the note-on of a note
\* is written before its note-off.
C18_ExporterDeltaEncoding ==
    pc = "exported" =>
        LET keys == SortedKeys(DOMAIN midi_representation.tracks)
        IN  /\ Len(exported_file.tracks) = Len(keys) + 1
            /\ \A n \in DOMAIN keys :
                   LET ns   == midi_representation.tracks[keys[n]].notes
                       sigs == NoteSignatures(ExportedTrack(n))
                   IN  (\A k \in DOMAIN ns : ns[k].beat >= 0 /\ ns[k].duration >= 0)
                       => /\ SeqToBag(sigs) = SeqToBag(ExpectedSignatures(ns))
                          /\ \A p \in DOMAIN ExportedTrack(n) : ExportedTrack(n)[p].time >= 0
                          /\ \A k \in DOMAIN ns :
                                 \E p, q \in DOMAIN sigs :
                                     /\ p < q
                                     /\ sigs[p] = OnSignature(ns[k])
                                     /\ sigs[q] = OffSignature(ns[k])

\* A track of two notes, one of them with a positive duration, has been
\* exported with a note-off that lies later than the message before it.
C18_Witness ==
    /\ pc = "exported"
    /\ \E i \in DOMAIN midi_representation.tracks :
           /\ Len(midi_representation.tracks[i].notes) = 2
           /\ \E k \in 1..2 : midi_representation.tracks[i].notes[k].duration > 0
    /\ \E n \in 2..Len(exported_file.tracks) :
           \E p \in DOMAIN exported_file.tracks[n] :
               /\ exported_file.tracks[n][p].type = "note_off"
               /\ exported_file.tracks[n][p].time > 0

\* The positions of the program-change messages of a track.
ProgramChangePositions(track) == {p \in DOMAIN track : track[p].type = "program_change"}

\* C19: the exported track of a music track has a program-change message
\* only if channel_instrument_map has an entry for the track's most used
\* channel, and that message carries the channel and the entry's program; a
\* track whose most used channel has no entry, or that has no notes, has no
\* program-change message.
C19_ProgramChangeOnlyIfMapped ==
    pc = "exported" =>
        LET keys == SortedKeys(DOMAIN midi_representation.tracks)
            map  == midi_representation.channel_instrument_map
        IN  \A n \in DOMAIN keys :
                LET track_channel == most_used_channel(midi_representation.tracks[keys[n]])
                    at            == ProgramChangePositions(ExportedTrack(n))
                IN  IF track_channel \in DOMAIN map
                    THEN /\ Cardinality(at) = 1
                         /\ \A p \in at :
                                /\ ExportedTrack(n)[p].channel = track_channel
                                /\ ExportedTrack(n)[p].program = map[track_channel]
                    ELSE at = {}

====
